---- MODULE Spec2Model ----
(***************************************************************************)
(* Byte Watt / Neovolt battery integration: the authenticated polling      *)
(* client (battery_monitor.py) and the refresh cycle of its coordinator    *)
(* (coordinator.py).  Every await of the asyncio code is a step boundary;  *)
(* the code between two awaits is one atomic action.                       *)
(***************************************************************************)
EXTENDS Integers, Sequences, FiniteSets, TLC

\* ---------------------------------------------------------------- bounds
MaxTicks == 2            \* refresh requests after the first refresh

\* ------------------------------------------------------ program constants
MaxRetriesOffByOne == 3 + 1
MAX_RETRIES == 3
RETRY_DELAY == 2

\* ------------------------------------------------------------ value space
None == "None"                       \* Python None where a token is expected
Tokens == {"t1", "t2"}               \* the non-empty strings the server hands out

\* Telemetry numbers are held in tenths: 55 is 550 and -120.5 is -1205.
S1 == {<<"soc", 550>>}
S2 == {<<"soc", 600>>, <<"pbat", -500>>}
Snapshots == {S1, S2}

\* Snapshots for the sensor readings.
Scenario ==
    { <<"soc", 550>>, <<"pmeter_l1", -1205>>, <<"pmeter_l2", 800>>,
      <<"pmeter_l3", 0>>, <<"pbat", -500>>, <<"ppv1", 1000>>, <<"ppv2", 0>>,
      <<"ppv3", 0>>, <<"ppv4", 0>>, <<"preal_l1", 100>>, <<"preal_l2", 200>>,
      <<"preal_l3", 0>> }
ScenarioImport ==
    { <<"soc", 120>>, <<"pmeter_l1", 805>>, <<"pmeter_l2", -300>>,
      <<"pmeter_l3", -900>>, <<"pbat", 400>>, <<"ppv1", 15>>, <<"ppv2", 25>>,
      <<"preal_l1", -100>>, <<"preal_l2", 40>>, <<"preal_l3", 10>> }
ScenarioSparse == { <<"pmeter_l2", -70>>, <<"ppv3", 330>>, <<"preal_l3", -5>> }
ReadSnapshots == {{}, S1, S2, Scenario, ScenarioImport, ScenarioSparse}

PyNone == [t |-> "None", v |-> {}]   \* coordinator.data before any success
Dict(s) == [t |-> "dict", v |-> s]   \* a Python dict, as a set of items

\* A telemetry GET outcome: exc is "transport" when session.get raises,
\* "json" when response.json() raises, "none" otherwise.
GetResp(exc, status, code, kind, data) ==
    [exc |-> exc, status |-> status, code |-> code, kind |-> kind, data |-> data]
NoResp == GetResp("none", 0, 0, "missing", {})
GetResponses ==
    { GetResp("transport", 0, 0, "missing", {}),
      GetResp("json", 200, 0, "missing", {}),
      GetResp("none", 401, 0, "missing", {}),
      GetResp("none", 200, 9007, "missing", {}),
      GetResp("none", 200, 9007, "dict", S1),
      GetResp("none", 200, 0, "missing", {}),
      GetResp("none", 200, 0, "notdict", {}),
      GetResp("none", 200, 0, "dict", {}) }
    \cup { GetResp("none", 200, 0, "dict", s) : s \in Snapshots }

\* Further answers that set the checks of fetch_battery_data against each
\* other: a 401 with any body, and non-401 error statuses with a JSON body.
AllGetResponses ==
    GetResponses \cup
    { GetResp("json", 401, 0, "missing", {}),
      GetResp("none", 401, 9007, "dict", S1),
      GetResp("none", 500, 0, "dict", S2),
      GetResp("none", 500, 9007, "missing", {}),
      GetResp("none", 200, 9007, "dict", {}) }

\* A login POST outcome.  kind describes body["data"], hasTok whether it has
\* the key AccessToken, tok the value under that key.
LoginResp(exc, status, kind, hasTok, tok) ==
    [exc |-> exc, status |-> status, kind |-> kind, hasTok |-> hasTok, tok |-> tok]
NoLogin == LoginResp("none", 0, "missing", FALSE, None)
LoginResponses ==
    { LoginResp("transport", 0, "missing", FALSE, None),
      LoginResp("json", 500, "missing", FALSE, None),
      LoginResp("none", 200, "missing", FALSE, None),
      LoginResp("none", 200, "notdict", FALSE, None),
      LoginResp("none", 200, "dict", FALSE, None),
      LoginResp("none", 403, "dict", FALSE, None),
      LoginResp("none", 500, "dict", TRUE, "t1") }
    \cup { LoginResp("none", 200, "dict", TRUE, t) : t \in Tokens }

\* ------------------------------------------------------------------ state
VARIABLES
    access_token,   \* ByteWattBatteryMonitor.access_token
    headers,        \* headers["Authorization"] token of the running call
    attempt,        \* loop variable of get_battery_data
    pc,             \* position of the get_battery_data call
    result,         \* how the last get_battery_data call ended
    events,         \* I/O of the running (or last) get_battery_data call
    rejected,       \* tokens answered 401 with no successful login since
    auth_timestamp, \* ByteWattBatteryMonitor.auth_timestamp
    auth_signature, \* ByteWattBatteryMonitor.auth_signature
    hdr_auth,       \* authtimestamp, authsignature in headers of the call
    sent,           \* timestamp/signature pairs carried by requests so far
    data,           \* coordinator.data
    last_update_success,
    refreshing,     \* a coordinator refresh is in flight
    requesters,     \* who waits for the in-flight refresh
    observed,       \* what each requester of the latest refresh got back
    running,        \* get_battery_data executions in progress
    cycles,         \* executions started for the in-flight refresh
    ticks,          \* refresh requests made after setup
    setup,          \* async_setup_entry: "first_refresh", "forwarding",
                    \* "loaded" (returned True), "failed" (raised)
    stored,         \* hass.data[DOMAIN][entry_id] holds the coordinator
    platform,       \* the sensor platform of the entry is set up
    read_sensor,    \* name of the sensor whose native_value was read last
    native_value,   \* what that read returned
    flow_step,      \* where the config flow stands
    flow_input,     \* user_input of the submission being validated
    flow_token,     \* access_token of the monitor validate_input built
    flow_login,     \* answer to the login POST of that monitor
    flow_errors,    \* errors["base"] of the form shown last, "" for no
                    \* error, None while no form has been shown
    flow_raised,    \* exception class that left async_step_user
    flow_entry      \* what async_create_entry was called with

vars == <<access_token, headers, attempt, pc, result, events, rejected,
          auth_timestamp, auth_signature, hdr_auth, sent, data,
          last_update_success, refreshing, requesters, observed, running,
          cycles, ticks, setup, stored, platform, read_sensor, native_value,
          flow_step, flow_input, flow_token, flow_login, flow_errors,
          flow_raised, flow_entry>>

monitorVars == <<access_token, headers, attempt, pc, result, events, rejected,
                 auth_timestamp, auth_signature, hdr_auth, sent>>
flowVars == <<flow_step, flow_input, flow_token, flow_login, flow_errors,
              flow_raised, flow_entry>>
coordVars == <<data, last_update_success, refreshing, requesters, observed,
               running, cycles, ticks, setup, stored, platform,
               read_sensor, native_value, flowVars>>
sensorVars == <<read_sensor, native_value>>

Requesters == {"setup", "timer", "manual"}

\* err is the chain of UpdateFailed messages, outermost first
NoResult == [kind |-> "none", value |-> {}, err |-> << >>]
Returned(v) == [kind |-> "return", value |-> v, err |-> << >>]
Raised(e) == [kind |-> "raise", value |-> {}, err |-> <<e>>]

Ev(e, tok, resp, lresp, secs) ==
    [e |-> e, tok |-> tok, resp |-> resp, lresp |-> lresp, secs |-> secs]

\* ------------------------------------------------------- pure helpers
\* helpers.generate_auth_timestamp(): the wall clock at construction
Timestamps == {1700000000, 1700000060}

\* helpers.generate_auth_signature(): prefix, SHA-512 hex digest of the four
\* secrets followed by str(timestamp), suffix.  The digest is kept symbolic,
\* as its input.
Sha512Hex(str) == <<"sha512", str>>
generate_auth_signature(timestamp) ==
    <<"al8e4s",
      Sha512Hex(<<"LS885ZYDA95JV", "FQKUIUUUV7PQNODZ", "RDZIS4ERRED",
                  "S0EED8BCWSS", timestamp>>),
      "ui893ed">>

NoPair == <<0, << >>>>
\* The login is signed with a timestamp taken for this request.
AuthParamsFresh(ts, sig) == <<ts + 1, generate_auth_signature(ts + 1)>>
\* authenticate(): the authtimestamp/authsignature query parameters
AuthParams(ts, sig) == <<ts, sig>>
\* get_battery_data(): the authtimestamp/authsignature headers
AuthHeaders(ts, sig) == <<ts, sig>>

TruthyAlways(tok) == TRUE
Truthy(tok) == tok # None

\* authenticate(): data["data"]["AccessToken"] evaluates without raising
LoginYieldsToken(r) == r.exc = "none" /\ r.kind = "dict" /\ r.hasTok

\* authenticate(): value of self.access_token afterwards
TokenAfterLoginKeepOld(old, r) ==
    IF LoginYieldsToken(r) /\ ~Truthy(old) THEN r.tok ELSE old
TokenAfterLoginClobber(old, r) == IF LoginYieldsToken(r) THEN r.tok ELSE None
TokenAfterLogin(old, r) == IF LoginYieldsToken(r) THEN r.tok ELSE old

\* The data object is looked at before the application code.
ClassifyDataFirst(r) ==
    IF r.exc = "transport" THEN "exception"
    ELSE IF r.status = 401 THEN "401"
    ELSE IF r.exc = "json" THEN "exception"
    ELSE IF r.kind = "dict" /\ Cardinality(r.data) > 0 THEN "valid"
    ELSE IF r.code = 9007 THEN "9007"
    ELSE "format"

\* fetch_battery_data(): outcome of one GET
Classify(r) ==
    IF r.exc = "transport" THEN "exception"
    ELSE IF r.status = 401 THEN "401"
    ELSE IF r.exc = "json" THEN "exception"
    ELSE IF r.code = 9007 THEN "9007"
    ELSE IF r.kind = "dict" /\ Cardinality(r.data) > 0 THEN "valid"
    ELSE "format"

\* get_battery_data(): `if attempt < MAX_RETRIES - 1` in both except clauses
BackoffAlways(a) == TRUE
BackoffFirstOnly(a) == a < MAX_RETRIES - 2
NeedsBackoff(a) == a < MAX_RETRIES - 1

\* get_battery_data(): error raised when the last attempt fails
ErrOfNoWrap(c) == c
ErrOf(c) == IF c = "exception" THEN "fetch" ELSE c

\* get_battery_data(): `if data is not None: return data`
LoopReturns(v) == v # PyNone

\* DataUpdateCoordinator: coordinator.data after a refresh ended with res
DataAfterDropStale(old, res) == IF res.kind = "return" THEN Dict(res.value) ELSE PyNone
DataAfter(old, res) == IF res.kind = "return" THEN Dict(res.value) ELSE old

\* _async_update_data(): pass the data on, re-raise UpdateFailed wrapped
AsyncUpdateDataSwallow(res) ==
    IF res.kind = "raise" THEN Returned({}) ELSE res
AsyncUpdateData(res) ==
    IF res.kind = "raise"
      THEN [kind |-> "raise", value |-> {}, err |-> <<"api">> \o res.err]
      ELSE res

\* async_setup_entry: line 71 runs only if the awaited first refresh
\* returned; the coordinator is stored whatever the first refresh did.
StoredAfterFirstRefreshAlways(res) == TRUE
StoredAfterFirstRefresh(res) == res.kind = "return"

NoOutcome == [kind |-> "none", data |-> PyNone, err |-> << >>]
OutcomeOf(d, res) ==
    IF res.kind = "return" THEN [kind |-> "data", data |-> d, err |-> << >>]
    ELSE [kind |-> "fail", data |-> PyNone, err |-> res.err]

\* ------------------------------------------------------ sensor readings
PNone == [t |-> "None", v |-> 0]       \* a reading of None
Num(x) == [t |-> "num", v |-> x]       \* a numeric reading, in tenths
Unread == [t |-> "unread", v |-> 0]    \* no native_value read yet

\* dict.get(key): the value under key, or None
DictGet(d, key) ==
    IF \E p \in d : p[1] = key
      THEN Num((CHOOSE p \in d : p[1] = key)[2])
      ELSE PNone

\* get_power_value(): float(value), or 0.0 for a missing value
get_power_value(d, key) ==
    LET value == DictGet(d, key) IN IF value # PNone THEN value.v ELSE 0

Min(a, b) == IF a <= b THEN a ELSE b
Max(a, b) == IF a >= b THEN a ELSE b
Abs(a) == IF a < 0 THEN -a ELSE a

\* abs(max(x, 0)) in place of abs(min(x, 0))
FeedInOfMax(x) == Abs(Max(x, 0))
\* the feed-in and charging lambdas: abs(min(x, 0))
FeedInOf(x) == Abs(Min(x, 0))
\* the consumption and discharging lambdas: max(x, 0)
ConsumptionOf(x) == Max(x, 0)

SumMeter(d) == get_power_value(d, "pmeter_l1") + get_power_value(d, "pmeter_l2")
               + get_power_value(d, "pmeter_l3")
SumReal(d) == get_power_value(d, "preal_l1") + get_power_value(d, "preal_l2")
              + get_power_value(d, "preal_l3")
SumPv(d) == get_power_value(d, "ppv1") + get_power_value(d, "ppv2")
            + get_power_value(d, "ppv3") + get_power_value(d, "ppv4")

RawSensors ==
    { <<"State of Charge", "soc">>,
      <<"MPPT Tracker String 1", "ppv1">>,
      <<"MPPT Tracker String 2", "ppv2">>,
      <<"MPPT Tracker String 3", "ppv3">>,
      <<"MPPT Tracker String 4", "ppv4">>,
      <<"Battery Phase 1 Discharging", "preal_l1">>,
      <<"Battery Phase 2 Discharging", "preal_l2">>,
      <<"Battery Phase 3 Discharging", "preal_l3">> }
FeedInSensors ==
    { <<"Grid Phase 1 Feed-In", "pmeter_l1">>,
      <<"Grid Phase 2 Feed-In", "pmeter_l2">>,
      <<"Grid Phase 3 Feed-In", "pmeter_l3">>,
      <<"Battery Charging", "pbat">> }
ConsumptionSensors ==
    { <<"Grid Phase 1 Consumption", "pmeter_l1">>,
      <<"Grid Phase 2 Consumption", "pmeter_l2">>,
      <<"Grid Phase 3 Consumption", "pmeter_l3">> }
SumSensors ==
    {"Battery Discharging", "PV Generation", "Grid Feed-In", "Grid Consumption"}
NamesOf(table) == {p[1] : p \in table}
FieldOf(table, name) == (CHOOSE p \in table : p[1] = name)[2]
Sensors == NamesOf(RawSensors) \cup NamesOf(FeedInSensors)
           \cup NamesOf(ConsumptionSensors) \cup SumSensors

\* The lambda each BatterySensor of async_setup_entry is built with.
Formula(name, d) ==
    IF name \in NamesOf(RawSensors) THEN DictGet(d, FieldOf(RawSensors, name))
    ELSE IF name \in NamesOf(FeedInSensors)
      THEN Num(FeedInOf(get_power_value(d, FieldOf(FeedInSensors, name))))
    ELSE IF name \in NamesOf(ConsumptionSensors)
      THEN Num(ConsumptionOf(get_power_value(d, FieldOf(ConsumptionSensors, name))))
    ELSE IF name = "Battery Discharging" THEN Num(ConsumptionOf(SumReal(d)))
    ELSE IF name = "PV Generation" THEN Num(SumPv(d))
    ELSE IF name = "Grid Feed-In" THEN Num(FeedInOf(SumMeter(d)))
    ELSE Num(ConsumptionOf(SumMeter(d)))

\* BatterySensor.native_value: the formula over coordinator.data if that is
\* truthy, else None
NativeValue(name, cdata) ==
    IF cdata # PyNone /\ cdata.v # {} THEN Formula(name, cdata.v) ELSE PNone

\* ------------------------------------------------------------ config flow
\* user_input as STEP_USER_DATA_SCHEMA admits it
FlowInputs ==
    [username : {"alice", "bob"}, password : {"pw1", "pw2"}, scan_interval : {1, 5}]
NoInput == [username |-> "", password |-> "", scan_interval |-> 0]
NoEntry == [title |-> << >>, data |-> NoInput]

\* authenticate() logs a failure and returns.
AuthenticateRaisesNever(r) == "none"
\* authenticate(): the class of the exception it raises, "none" if it returns.
\* Every failure inside its try block leaves as UpdateFailed.
AuthenticateRaises(r) == IF LoginYieldsToken(r) THEN "none" ELSE "UpdateFailed"

\* validate_input: the class of the exception it raises for what authenticate()
\* raised; only the two requests classes are translated.
ValidateInputRaises(exc) ==
    IF exc = "HTTPError401" THEN "InvalidAuth"
    ELSE IF exc \in {"HTTPError", "RequestException"} THEN "CannotConnect"
    ELSE exc

\* validate_input's return value
ValidateInputInfo(input) == [title |-> <<"Neovolt Battery", input.username>>]

\* async_step_user: errors["base"] for what validate_input raised
StepUserErrors(exc) ==
    IF exc = "CannotConnect" THEN "cannot_connect"
    ELSE IF exc = "InvalidAuth" THEN "invalid_auth"
    ELSE ""

\* async_step_user has no except clause for exc.
StepUserLetsThrough(exc) == exc \notin {"none", "CannotConnect", "InvalidAuth"}

\* A flow object on which no step has run.
FlowNotStarted ==
    /\ flow_step = "init"
    /\ flow_input = NoInput
    /\ flow_token = None
    /\ flow_login = NoLogin
    /\ flow_errors = None
    /\ flow_raised = "none"
    /\ flow_entry = NoEntry

\* ------------------------------------------------------------------- Init
Init ==
    /\ access_token = None
    /\ headers = None
    /\ attempt = 0
    /\ pc = "idle"
    /\ result = NoResult
    /\ events = << >>
    /\ rejected = {}
    /\ auth_timestamp \in Timestamps
    /\ auth_signature = generate_auth_signature(auth_timestamp)
    /\ hdr_auth = NoPair
    /\ sent = {}
    /\ data = PyNone
    /\ last_update_success = TRUE
    /\ refreshing = FALSE
    /\ requesters = {}
    /\ observed = [r \in Requesters |-> NoOutcome]
    /\ running = 0
    /\ cycles = 0
    /\ ticks = 0
    /\ setup = "first_refresh"
    /\ stored = FALSE
    /\ platform = FALSE
    /\ read_sensor = "none"
    /\ native_value = Unread
    /\ FlowNotStarted

\* ------------------------------------------------ get_battery_data steps
\* The attempt counter survives a failed call.
GetBatteryDataEnterCarry ==
    /\ events' = << >>
    /\ result' = NoResult
    /\ attempt' = IF last_update_success THEN 0 ELSE MAX_RETRIES - 1
    /\ IF ~Truthy(access_token)
         THEN /\ pc' = "auth"
              /\ headers' = None
              /\ hdr_auth' = NoPair
         ELSE /\ pc' = "get"
              /\ headers' = access_token
              /\ hdr_auth' = AuthHeaders(auth_timestamp, auth_signature)
    /\ UNCHANGED <<access_token, rejected, auth_timestamp, auth_signature, sent>>

\* Entry of get_battery_data up to its first await.
GetBatteryDataEnter ==
    /\ events' = << >>
    /\ result' = NoResult
    /\ attempt' = 0
    /\ IF ~Truthy(access_token)
         THEN /\ pc' = "auth"
              /\ headers' = None
              /\ hdr_auth' = NoPair
         ELSE /\ pc' = "get"
              /\ headers' = access_token
              /\ hdr_auth' = AuthHeaders(auth_timestamp, auth_signature)
    /\ UNCHANGED <<access_token, rejected, auth_timestamp, auth_signature, sent>>

\* An attempt failed with error e: back off or give up.
AttemptFailed(evs, e) ==
    IF NeedsBackoff(attempt)
      THEN /\ pc' = "sleep"
           /\ events' = evs
           /\ result' = result
      ELSE /\ pc' = "done"
           /\ events' = Append(evs, Ev("RAISE", None, NoResp, NoLogin, 0))
           /\ result' = Raised(e)

\* The loop body ended without return or exception: next iteration, or the
\* statement after the loop.
NextIteration(evs) ==
    /\ attempt' = attempt + 1
    /\ IF attempt + 1 < MAX_RETRIES
         THEN /\ pc' = "get"
              /\ events' = evs
              /\ result' = result
         ELSE /\ pc' = "done"
              /\ events' = Append(evs, Ev("RETURN", None, NoResp, NoLogin, 0))
              /\ result' = Returned({})

\* fetch_battery_data returned v to the loop of get_battery_data.
FetchReturned(evs, v) ==
    IF LoopReturns(v)
      THEN /\ pc' = "done"
           /\ events' = Append(evs, Ev("RETURN", None, NoResp, NoLogin, 0))
           /\ result' = Returned(v.v)
           /\ attempt' = attempt
      ELSE NextIteration(evs)

\* `await self.authenticate()` at the top of get_battery_data completes.
InitialAuthenticate(r) ==
    /\ pc = "auth"
    /\ access_token' = TokenAfterLogin(access_token, r)
    /\ sent' = sent \cup {AuthParams(auth_timestamp, auth_signature)}
    /\ UNCHANGED <<auth_timestamp, auth_signature>>
    /\ IF LoginYieldsToken(r)
         THEN /\ events' = Append(events, Ev("LOGIN_OK", r.tok, NoResp, r, 0))
              /\ headers' = access_token'
              /\ hdr_auth' = AuthHeaders(auth_timestamp, auth_signature)
              /\ rejected' = {}
              /\ pc' = "get"
              /\ result' = result
         ELSE /\ events' = events \o << Ev("LOGIN_FAIL", None, NoResp, r, 0),
                                       Ev("RAISE", None, NoResp, NoLogin, 0) >>
              /\ pc' = "done"
              /\ result' = Raised("auth")
              /\ UNCHANGED <<headers, rejected, hdr_auth>>
    /\ UNCHANGED attempt
    /\ UNCHANGED coordVars

\* One telemetry GET is sent with the current headers and answered by r.
Fetch(r) ==
    /\ pc = "get"
    /\ LET evs == Append(events, Ev("GET", headers, r, NoLogin, 0))
           c == Classify(r)
       IN  IF c = "401"
             THEN /\ pc' = "reauth"
                  /\ events' = evs
                  /\ rejected' = rejected \cup {headers}
                  /\ UNCHANGED <<result, attempt>>
           ELSE IF c = "valid"
             THEN /\ FetchReturned(evs, Dict(r.data))
                  /\ UNCHANGED rejected
           ELSE /\ AttemptFailed(evs, ErrOf(c))
                /\ UNCHANGED <<rejected, attempt>>
    /\ sent' = sent \cup {hdr_auth}
    /\ UNCHANGED <<access_token, headers, auth_timestamp, auth_signature, hdr_auth>>
    /\ UNCHANGED coordVars

\* `await self.authenticate()` inside fetch_battery_data (401 path) completes.
ReAuthenticate(r) ==
    /\ pc = "reauth"
    /\ access_token' = TokenAfterLogin(access_token, r)
    /\ sent' = sent \cup {AuthParams(auth_timestamp, auth_signature)}
    /\ UNCHANGED <<auth_timestamp, auth_signature, hdr_auth>>
    /\ IF LoginYieldsToken(r)
         THEN /\ headers' = access_token'
              /\ rejected' = {}
              /\ FetchReturned(Append(events, Ev("LOGIN_OK", r.tok, NoResp, r, 0)),
                               Dict({}))
         ELSE /\ AttemptFailed(Append(events, Ev("LOGIN_FAIL", None, NoResp, r, 0)),
                               "auth")
              /\ UNCHANGED <<headers, rejected, attempt>>
    /\ UNCHANGED coordVars

\* `await asyncio.sleep(RETRY_DELAY)` completes.
Sleep ==
    /\ pc = "sleep"
    /\ NextIteration(Append(events, Ev("WAIT", None, NoResp, NoLogin, RETRY_DELAY)))
    /\ UNCHANGED <<access_token, headers, rejected,
                   auth_timestamp, auth_signature, hdr_auth, sent>>
    /\ UNCHANGED coordVars

\* ------------------------------------------------------ coordinator steps
StartRefresh(r) ==
    /\ refreshing' = TRUE
    /\ requesters' = {r}
    /\ observed' = [q \in Requesters |-> NoOutcome]
    /\ running' = running + 1
    /\ cycles' = 1
    /\ GetBatteryDataEnter

\* A second fetch is started although one is in flight.
RefreshNoJoin(r) ==
    /\ refreshing' = TRUE
    /\ observed' = [q \in Requesters |-> NoOutcome]
    /\ requesters' = IF refreshing THEN requesters \cup {r} ELSE {r}
    /\ running' = running + 1
    /\ cycles' = IF refreshing THEN cycles + 1 ELSE 1
    /\ GetBatteryDataEnter

\* refreshNow(): join the in-flight refresh or start one.
Refresh(r) ==
    IF refreshing
      THEN /\ requesters' = requesters \cup {r}
           /\ UNCHANGED <<refreshing, running, cycles, observed>>
           /\ UNCHANGED monitorVars
      ELSE StartRefresh(r)

\* async_setup_entry: coordinator.async_config_entry_first_refresh()
FirstRefresh ==
    /\ setup = "first_refresh"
    /\ ~refreshing
    /\ Refresh("setup")
    /\ UNCHANGED <<data, last_update_success, ticks, setup, stored, platform>>
    /\ UNCHANGED <<sensorVars, flowVars>>

\* A timer tick or a manual refresh request on the loaded coordinator.
RequestRefresh(r) ==
    /\ setup = "loaded"
    /\ ticks < MaxTicks
    /\ ~(refreshing /\ r \in requesters)
    /\ ticks' = ticks + 1
    /\ Refresh(r)
    /\ UNCHANGED <<data, last_update_success, setup, stored, platform>>
    /\ UNCHANGED <<sensorVars, flowVars>>

\* _async_update_data returned or raised; the coordinator records the result
\* and wakes everyone who waited for this refresh.
FinishRefresh ==
    /\ pc = "done"
    /\ refreshing
    /\ LET res == AsyncUpdateData(result)
       IN  /\ data' = DataAfter(data, res)
           /\ last_update_success' = (res.kind = "return")
           /\ observed' = [r \in Requesters |->
                             IF r \in requesters THEN OutcomeOf(data', res)
                                                 ELSE observed[r]]
           /\ setup' = IF setup = "first_refresh"
                         THEN (IF res.kind = "return" THEN "forwarding"
                                                      ELSE "failed")
                         ELSE setup
           /\ stored' = IF setup = "first_refresh"
                          THEN StoredAfterFirstRefresh(res)
                          ELSE stored
           /\ UNCHANGED platform
    /\ refreshing' = FALSE
    /\ running' = running - 1
    /\ pc' = "idle"
    /\ headers' = None          \* the locals of the finished call are gone
    /\ hdr_auth' = NoPair
    /\ UNCHANGED <<auth_timestamp, auth_signature, sent>>
    /\ UNCHANGED <<sensorVars, flowVars>>
    /\ attempt' = 0
    /\ result' = NoResult
    /\ events' = << >>
    /\ UNCHANGED <<access_token, rejected, requesters, cycles, ticks>>

\* async_setup_entry: `await async_forward_entry_setups(entry, PLATFORMS)`
\* completes and the function returns True.
ForwardEntrySetups ==
    /\ setup = "forwarding"
    /\ platform' = TRUE
    /\ setup' = "loaded"
    /\ UNCHANGED monitorVars
    /\ UNCHANGED <<data, last_update_success, refreshing, requesters, observed,
                   running, cycles, ticks, stored>>
    /\ UNCHANGED <<sensorVars, flowVars>>

\* Reading the property refreshes the coordinator's data first.
ReadSensorFetching(name) ==
    /\ platform
    /\ read_sensor' = name
    /\ native_value' = NativeValue(name, data)
    /\ events' = Append(events, Ev("GET", access_token, NoResp, NoLogin, 0))
    /\ UNCHANGED <<access_token, headers, attempt, pc, result, rejected,
                   auth_timestamp, auth_signature, hdr_auth, sent>>
    /\ UNCHANGED <<data, last_update_success, refreshing, requesters, observed,
                   running, cycles, ticks, setup, stored, platform>>
    /\ UNCHANGED flowVars

\* BatterySensor.native_value is read for the sensor called name.
ReadSensor(name) ==
    /\ platform
    /\ read_sensor' = name
    /\ native_value' = NativeValue(name, data)
    /\ UNCHANGED monitorVars
    /\ UNCHANGED <<data, last_update_success, refreshing, requesters, observed,
                   running, cycles, ticks, setup, stored, platform>>
    /\ UNCHANGED flowVars

Next ==
    \/ FirstRefresh
    \/ ForwardEntrySetups
    \/ \E r \in {"timer", "manual"} : RequestRefresh(r)
    \/ \E r \in LoginResponses : InitialAuthenticate(r)
    \/ \E r \in GetResponses : Fetch(r)
    \/ \E r \in LoginResponses : ReAuthenticate(r)
    \/ Sleep
    \/ FinishRefresh

Spec == Init /\ [][Next]_vars

\* One get_battery_data call (the first refresh) against every kind of GET
\* answer.
NextFetch ==
    \/ FirstRefresh
    \/ ForwardEntrySetups
    \/ \E r \in LoginResponses : InitialAuthenticate(r)
    \/ \E r \in AllGetResponses : Fetch(r)
    \/ \E r \in LoginResponses : ReAuthenticate(r)
    \/ Sleep
    \/ FinishRefresh

SpecFetch == Init /\ [][NextFetch]_vars

\* The sensors of a loaded entry read the cached data, between refreshes
\* (pc = "idle") or while a timer refresh waits for its GET (pc = "get").
InitRead ==
    /\ access_token \in Tokens
    /\ refreshing \in BOOLEAN
    /\ pc = IF refreshing THEN "get" ELSE "idle"
    /\ headers = IF refreshing THEN access_token ELSE None
    /\ attempt = 0
    /\ result = NoResult
    /\ events = << >>
    /\ rejected = {}
    /\ auth_timestamp \in Timestamps
    /\ auth_signature = generate_auth_signature(auth_timestamp)
    /\ hdr_auth = IF refreshing THEN AuthHeaders(auth_timestamp, auth_signature)
                                ELSE NoPair
    /\ sent = {<<auth_timestamp, auth_signature>>}
    /\ data \in {Dict(d) : d \in ReadSnapshots}
    /\ last_update_success = TRUE
    /\ requesters = IF refreshing THEN {"timer"} ELSE {"setup"}
    /\ observed = [r \in Requesters |->
                     IF ~refreshing /\ r = "setup"
                       THEN OutcomeOf(data, Returned(data.v)) ELSE NoOutcome]
    /\ running = IF refreshing THEN 1 ELSE 0
    /\ cycles = 1
    /\ ticks = IF refreshing THEN 1 ELSE 0
    /\ setup = "loaded"
    /\ stored = TRUE
    /\ platform = TRUE
    /\ read_sensor = "none"
    /\ native_value = Unread
    /\ FlowNotStarted

NextRead == \E name \in Sensors : ReadSensor(name)

SpecRead == InitRead /\ [][NextRead]_vars

\* ------------------------------------------------------ config flow steps
\* No config entry exists yet: nothing is set up and no monitor is polling.
InitFlow ==
    /\ access_token = None
    /\ headers = None
    /\ attempt = 0
    /\ pc = "idle"
    /\ result = NoResult
    /\ events = << >>
    /\ rejected = {}
    /\ auth_timestamp \in Timestamps
    /\ auth_signature = generate_auth_signature(auth_timestamp)
    /\ hdr_auth = NoPair
    /\ sent = {}
    /\ data = PyNone
    /\ last_update_success = TRUE
    /\ refreshing = FALSE
    /\ requesters = {}
    /\ observed = [r \in Requesters |-> NoOutcome]
    /\ running = 0
    /\ cycles = 0
    /\ ticks = 0
    /\ setup = "no_entry"
    /\ stored = FALSE
    /\ platform = FALSE
    /\ read_sensor = "none"
    /\ native_value = Unread
    /\ FlowNotStarted

\* async_step_user(None): the empty form is shown.
StepUserShow ==
    /\ flow_step = "init"
    /\ flow_step' = "form"
    /\ flow_errors' = ""
    /\ UNCHANGED <<flow_input, flow_token, flow_login, flow_raised, flow_entry>>
    /\ UNCHANGED <<monitorVars, data, last_update_success, refreshing,
                   requesters, observed, running, cycles, ticks, setup, stored,
                   platform, sensorVars>>

\* async_step_user(input) up to `await battery_monitor.authenticate()`:
\* validate_input has built a monitor of its own, which holds no token.
StepUserBegin(input) ==
    /\ flow_step' = "validating"
    /\ flow_input' = input
    /\ flow_token' = None
    /\ flow_login' = NoLogin
    /\ UNCHANGED <<flow_errors, flow_raised, flow_entry>>
    /\ UNCHANGED <<monitorVars, data, last_update_success, refreshing,
                   requesters, observed, running, cycles, ticks, setup, stored,
                   platform, sensorVars>>

\* The user submits the shown form.
StepUserSubmit(input) ==
    /\ flow_step = "form"
    /\ StepUserBegin(input)

\* async_step_import(import_config) hands the imported configuration to
\* async_step_user.
StepImport(input) ==
    /\ flow_step = "init"
    /\ StepUserBegin(input)

\* The login POST of validate_input's monitor is answered by r: the rest of
\* validate_input and of async_step_user runs.
StepUserFinish(r) ==
    /\ flow_step = "validating"
    /\ flow_login' = r
    /\ flow_token' = TokenAfterLogin(flow_token, r)
    /\ LET exc == ValidateInputRaises(AuthenticateRaises(r))
       IN  IF exc = "none"
             THEN /\ flow_step' = "created"
                  /\ flow_entry' = [title |-> ValidateInputInfo(flow_input).title,
                                    data |-> flow_input]
                  /\ UNCHANGED <<flow_errors, flow_raised>>
           ELSE IF StepUserLetsThrough(exc)
             THEN /\ flow_step' = "raised"
                  /\ flow_raised' = exc
                  /\ UNCHANGED <<flow_errors, flow_entry>>
           ELSE /\ flow_step' = "form"
                /\ flow_errors' = StepUserErrors(exc)
                /\ UNCHANGED <<flow_raised, flow_entry>>
    /\ UNCHANGED flow_input
    /\ UNCHANGED <<monitorVars, data, last_update_success, refreshing,
                   requesters, observed, running, cycles, ticks, setup, stored,
                   platform, sensorVars>>

NextFlow ==
    \/ StepUserShow
    \/ \E input \in FlowInputs : StepUserSubmit(input)
    \/ \E input \in FlowInputs : StepImport(input)
    \/ \E r \in LoginResponses : StepUserFinish(r)

SpecFlow == InitFlow /\ [][NextFlow]_vars

\* ------------------------------------------------ vocabulary of the claims
\* Raw readings of a response, independent of the client's classification.
Is401(r) == r.exc # "transport" /\ r.status = 401
Is9007(r) == r.exc = "none" /\ r.status # 401 /\ r.code = 9007
IsValidData(r) ==
    /\ r.exc = "none" /\ r.status # 401 /\ r.code # 9007
    /\ r.kind = "dict" /\ r.data # {}
HasToken(r) == r.exc = "none" /\ r.kind = "dict" /\ r.hasTok

GetIdx == {i \in 1..Len(events) : events[i].e = "GET"}
NumGets == Cardinality(GetIdx)
GetRank(i) == Cardinality({j \in GetIdx : j <= i})
LoginKinds == {"LOGIN_OK", "LOGIN_FAIL"}
Kinds == [i \in 1..Len(events) |-> events[i].e]
\* the kinds of the events from the first GET on
KindsFromFirstGet ==
    IF GetIdx = {} THEN << >>
    ELSE LET f == CHOOSE i \in GetIdx : \A j \in GetIdx : i <= j
         IN  SubSeq(Kinds, f, Len(events))

\* C1: a GET of attempt 1 or 2 answered 401 whose re-login succeeds is
\* followed by exactly one authenticate() and, in the same call, by another
\* GET carrying the new token.
C1_ReloginThenRetriedGet ==
    pc = "done" =>
      \A i \in GetIdx :
        ( /\ Is401(events[i].resp)
          /\ GetRank(i) <= 2
          /\ i < Len(events)
          /\ events[i + 1].e = "LOGIN_OK" )
        => /\ (i + 2 <= Len(events) => events[i + 2].e \notin LoginKinds)
           /\ \E j \in GetIdx : j > i + 1 /\ events[j].tok = events[i + 1].tok

\* C2: a value returned by get_battery_data is a non-empty mapping equal to
\* the data object of one GET response received during that call.
C2_ReturnedValueIsReceivedData ==
    (pc = "done" /\ result.kind = "return") =>
      /\ result.value # {}
      /\ \E i \in GetIdx : /\ events[i].resp.kind = "dict"
                           /\ events[i].resp.data = result.value

\* C3: one get_battery_data call issues at most 3 GETs and none after a GET
\* that returned valid data.
C3_AtMostThreeGets ==
    /\ NumGets <= 3
    /\ \A i \in GetIdx : IsValidData(events[i].resp) => \A j \in GetIdx : j <= i

\* C3 witness: a finished call that used all three GETs, one of them a 401,
\* and returned the data of the third.
W_C3_ThreeGetsMixed ==
    /\ pc = "done"
    /\ NumGets = 3
    /\ \E i \in GetIdx : Is401(events[i].resp)
    /\ \E i \in GetIdx : Is9007(events[i].resp)
    /\ result.kind = "return" /\ result.value \in Snapshots

\* C4: three GETs all answered with code 9007 give the event order
\* GET, wait, GET, wait, GET, raise; both waits last RETRY_DELAY (2 s) and
\* nothing follows the raise.
ThreeGets9007 == NumGets = 3 /\ \A i \in GetIdx : Is9007(events[i].resp)
C5_SingleFlight ==
    /\ running <= 1
    /\ (refreshing => running = 1 /\ cycles = 1)
    /\ (~refreshing /\ requesters # {}) =>
         /\ cycles = 1
         /\ \A q \in requesters : observed[q] # NoOutcome
         /\ \A q1, q2 \in requesters : observed[q1] = observed[q2]

\* C5 witness: a refresh started by the timer was joined by a manual request
\* and has finished with a snapshot for both.
W_C5_JoinedRefreshDone ==
    /\ ~refreshing
    /\ requesters = {"timer", "manual"}
    /\ observed["manual"].kind = "data"
    /\ observed["manual"].data = Dict(S2)

\* C6: a refresh whose get_battery_data raised leaves coordinator.data as it
\* was, and after setup it leaves the scheduler loaded and idle, ready for
\* the next tick.
RefreshEnds == pc = "done" /\ refreshing /\ ~refreshing'
C6_FailureKeepsSnapshot ==
    [][(RefreshEnds /\ result.kind = "raise") =>
          /\ data' = data
          /\ ~last_update_success'
          /\ (setup = "loaded" => setup' = "loaded" /\ pc' = "idle")]_vars

\* C6 witness: the previous tick failed, the non-empty snapshot is still
\* cached, and the next tick has already sent a GET.
W_C6_StaleThenNextTick ==
    /\ setup = "loaded"
    /\ ~last_update_success
    /\ data = Dict(S1)
    /\ refreshing /\ NumGets >= 1

\* C7: a GET never carries a token that was answered 401 and has not been
\* replaced by a successful authenticate() since.
GetSent == pc = "get" /\ Len(events') > Len(events)
C7_RejectedTokenNotReused ==
    [][GetSent => events'[Len(events) + 1].tok \notin rejected]_vars

\* C8: an authenticate() whose response yields no token raises and leaves
\* access_token unchanged; access_token changes only in an authenticate()
\* whose response yielded a token.
LoginDone == pc \in {"auth", "reauth"} /\ Len(events') > Len(events)
LoginAnswer == events'[Len(events) + 1].lresp
C9_FailedLoginEndsCall ==
    \A i \in 1..Len(events) :
      events[i].e = "LOGIN_FAIL" =>
        /\ \A j \in (i + 1)..Len(events) : events[j].e \notin LoginKinds \cup {"GET"}
        /\ (pc = "done" => result.kind = "raise")

\* C10: an authenticate() whose response contains data.AccessToken ends
\* without error and leaves access_token equal to that token.
C10_LoginStoresToken ==
    [][(LoginDone /\ HasToken(LoginAnswer)) =>
          /\ access_token' = LoginAnswer.tok
          /\ events'[Len(events) + 1].e = "LOGIN_OK"
          /\ result'.kind # "raise"]_vars

\* C10 witness: a client holding t1 re-logged in and now holds t2.
W_C10_TokenReplaced ==
    /\ \E i \in GetIdx : /\ events[i].tok = "t1"
                         /\ i < Len(events)
                         /\ events[i + 1].e = "LOGIN_OK"
                         /\ events[i + 1].lresp.tok = "t2"
    /\ access_token = "t2"

\* C11: a recoverable failure (code 9007, unexpected or undecodable body,
\* transport error) on attempt 1 or 2 is followed by one wait of RETRY_DELAY
\* (2 s) and then the next GET; a GET that receives valid data ends the call
\* with that data, after as many waits as there were failed attempts.
Recoverable(r) == ~Is401(r) /\ ~IsValidData(r)
NumWaits == Cardinality({i \in 1..Len(events) : events[i].e = "WAIT"})
C11_RecoverableFailureRetries ==
    /\ \A i \in GetIdx :
         (Recoverable(events[i].resp) /\ GetRank(i) <= 2) =>
           /\ (i = Len(events) => pc = "sleep")
           /\ (i < Len(events) =>
                 events[i + 1].e = "WAIT" /\ events[i + 1].secs = 2)
           /\ (i + 1 = Len(events) => pc = "get")
           /\ (i + 2 <= Len(events) => events[i + 2].e = "GET")
    /\ \A i \in GetIdx :
         IsValidData(events[i].resp) =>
           /\ pc = "done"
           /\ result = Returned(events[i].resp.data)
           /\ NumWaits = GetRank(i) - 1

\* C11 witness: a transport error, then a body without data, then valid
\* data S2 returned by the third GET.
W_C11_TwoFailuresThenData ==
    /\ NumGets = 3
    /\ \E i \in GetIdx : events[i].resp.exc = "transport"
    /\ \E i \in GetIdx : events[i].resp.exc = "none" /\ events[i].resp.kind = "missing"
                         /\ events[i].resp.code = 0 /\ events[i].resp.status = 200
    /\ result = Returned(S2)

\* C12: when every attempt of a call failed, the call ends by raising the
\* UpdateFailed of the last attempt (its own, or "Error fetching data" around
\* another exception); a call returns only from an attempt that did not
\* fail, the loop never falls through to the trailing return, and every
\* error leaving get_battery_data is an UpdateFailed, which
\* _async_update_data wraps once more.
AttemptFailedAt(i) ==
    \/ Recoverable(events[i].resp)
    \/ /\ Is401(events[i].resp)
       /\ i < Len(events)
       /\ events[i + 1].e = "LOGIN_FAIL"
AllAttemptsFailed == NumGets = 3 /\ \A i \in GetIdx : AttemptFailedAt(i)
LastGet == CHOOSE i \in GetIdx : \A j \in GetIdx : j <= i
ExpectedErr(r) ==
    IF Is401(r) THEN "auth"
    ELSE IF r.exc # "none" THEN "fetch"
    ELSE IF r.code = 9007 THEN "9007"
    ELSE "format"
UpdateFailedMessages == {"auth", "9007", "format", "fetch"}
C13_BudgetPerCall ==
    /\ attempt = NumWaits
    /\ NumGets <= attempt + 1
    /\ NumWaits <= 2
    /\ (pc = "auth" /\ events = << >>) => attempt = 0
    /\ (pc = "get" /\ events = << >>) => (attempt = 0 /\ headers = access_token)

\* C13 witness: the previous tick failed, and the present call has again
\* used three GETs and two waits.
W_C13_FullBudgetAfterFailure ==
    /\ setup = "loaded"
    /\ ~last_update_success
    /\ refreshing
    /\ NumGets = 3 /\ NumWaits = 2

GetAnswer == events'[Len(events) + 1].resp
FailsWith(e) ==
    /\ pc' \in {"sleep", "done"}
    /\ (pc' = "sleep") = (attempt < 2)
    /\ (pc' = "done" => result' = Raised(e))
C18_ClassificationPriority ==
    [][(GetSent /\ GetAnswer.exc # "transport") =>
         IF GetAnswer.status = 401
           THEN pc' = "reauth" /\ result' = result
         ELSE IF GetAnswer.exc = "json"
           THEN FailsWith("fetch")
         ELSE IF GetAnswer.code = 9007
           THEN FailsWith("9007")
         ELSE IF GetAnswer.kind = "dict" /\ GetAnswer.data # {}
           THEN pc' = "done" /\ result' = Returned(GetAnswer.data)
         ELSE FailsWith("format")]_vars

\* C18 witness: a 401 whose body held code 9007 and data led to a re-login,
\* and the third GET, answered 9007 together with data, made the call raise
\* the 9007 failure.
W_C18_PriorityCases ==
    /\ NumGets = 3
    /\ \E i \in GetIdx : /\ events[i].resp.status = 401
                         /\ events[i].resp.code = 9007
                         /\ events[i].resp.data # {}
                         /\ i < Len(events)
                         /\ events[i + 1].e = "LOGIN_FAIL"
    /\ events[LastGet].resp.status = 200
    /\ events[LastGet].resp.code = 9007
    /\ events[LastGet].resp.data # {}
    /\ result = Raised("9007")

\* C14: auth_timestamp and auth_signature keep the values the constructor
\* gave them, and every login and every GET of the monitor carries that one
\* pair.
C14_OneSignaturePerInstance ==
    [][ /\ auth_timestamp' = auth_timestamp
        /\ auth_signature' = auth_signature
        /\ auth_signature = generate_auth_signature(auth_timestamp)
        /\ sent' \subseteq {<<auth_timestamp, auth_signature>>} ]_vars

\* C14 witness: after setup, a GET was answered 401 and the client logged
\* in again; all requests so far carried the constructor's pair.
W_C14_ReloginSamePair ==
    /\ setup = "loaded"
    /\ \E i \in GetIdx : /\ Is401(events[i].resp)
                         /\ i < Len(events)
                         /\ events[i + 1].e = "LOGIN_OK"
    /\ sent = {<<auth_timestamp, auth_signature>>}

\* C15: the coordinator is stored only after the first refresh succeeded and
\* the platform is set up only after the coordinator is stored; when the
\* first refresh fails, neither happens.
C15_SetupOrder ==
    /\ setup \in {"first_refresh", "failed"} => (~stored /\ ~platform)
    /\ stored => (data # PyNone /\ setup \in {"forwarding", "loaded"})
    /\ platform => (stored /\ setup = "loaded")
    /\ setup = "loaded" => platform
    /\ setup = "failed" => (data = PyNone /\ ~last_update_success)

\* C15 witness: the first refresh has failed and setup ended without a
\* stored coordinator or a platform.
W_C15_FirstRefreshFailed ==
    /\ setup = "failed"
    /\ ~refreshing
    /\ observed["setup"].kind = "fail"
    /\ ~stored /\ ~platform

\* C16: reading a sensor's native_value sends no login and no GET and leaves
\* the cached data, the token and the refresh in flight as they were; with
\* no (or an empty) snapshot cached the reading is None.
ReadDone == <<read_sensor, native_value>>' # <<read_sensor, native_value>>
C16_ReadIsPure ==
    [][ReadDone =>
          /\ events' = events
          /\ sent' = sent
          /\ data' = data
          /\ access_token' = access_token
          /\ <<pc, refreshing, running, headers>>' = <<pc, refreshing, running, headers>>
          /\ ((data = PyNone \/ data.v = {}) => native_value' = PNone)]_vars

\* C16 witness: a sensor was read while the cache held the empty mapping and
\* a refresh was in flight; the reading is None.
W_C16_ReadEmptyCache ==
    /\ read_sensor = "State of Charge"
    /\ data = Dict({})
    /\ refreshing
    /\ native_value = PNone

\* C17: for the scenario snapshot the readings are Grid Phase 1 Feed-In
\* 120.5, Grid Phase 1 Consumption 0, Battery Charging 50, PV Generation 100
\* and Battery Discharging 30; for every snapshot, a feed-in reading of field
\* x is -x when x < 0 and else 0, a consumption reading is x when x > 0 and
\* else 0, and a missing field reads as 0.
FieldOrZero(d, key) ==
    LET hits == {p \in d : p[1] = key}
    IN  IF hits = {} THEN 0 ELSE (CHOOSE p \in hits : TRUE)[2]
C17_DerivedReadings ==
    /\ data = Dict(Scenario) =>
         /\ read_sensor = "Grid Phase 1 Feed-In" => native_value = Num(1205)
         /\ read_sensor = "Grid Phase 1 Consumption" => native_value = Num(0)
         /\ read_sensor = "Battery Charging" => native_value = Num(500)
         /\ read_sensor = "PV Generation" => native_value = Num(1000)
         /\ read_sensor = "Battery Discharging" => native_value = Num(300)
    /\ (data # PyNone /\ data.v # {}) =>
         /\ \A k \in 1..3 :
              LET key == <<"pmeter_l1", "pmeter_l2", "pmeter_l3">>[k]
                  x == FieldOrZero(data.v, key)
              IN  /\ read_sensor = <<"Grid Phase 1 Feed-In", "Grid Phase 2 Feed-In",
                                     "Grid Phase 3 Feed-In">>[k]
                       => native_value = Num(IF x < 0 THEN -x ELSE 0)
                  /\ read_sensor = <<"Grid Phase 1 Consumption",
                                     "Grid Phase 2 Consumption",
                                     "Grid Phase 3 Consumption">>[k]
                       => native_value = Num(IF x > 0 THEN x ELSE 0)
         /\ read_sensor = "Battery Charging" =>
              LET x == FieldOrZero(data.v, "pbat")
              IN  native_value = Num(IF x < 0 THEN -x ELSE 0)

\* C17 witness: Grid Phase 1 Feed-In was read over the scenario snapshot.
W_C17_ScenarioFeedIn ==
    /\ data = Dict(Scenario)
    /\ read_sensor = "Grid Phase 1 Feed-In"
    /\ native_value = Num(1205)

\* ---------------------------------------------------------------------- C19
\* The login POST of the submission validated last failed.
FlowLoginFailed ==
    /\ flow_step \in {"form", "created", "raised"}
    /\ flow_login # NoLogin
    /\ ~LoginYieldsToken(flow_login)

\* C19: when authenticate() fails during configuration, the user step shows
\* the form again with error invalid_auth or cannot_connect, and no exception
\* leaves async_step_user.
C19_AuthFailureReshowsForm ==
    FlowLoginFailed =>
        /\ flow_step = "form"
        /\ flow_errors \in {"invalid_auth", "cannot_connect"}
        /\ flow_raised = "none"

\* ---------------------------------------------------------------------- C21
\* During the call that is ending, a GET was answered 401 and the re-login
\* that followed it succeeded.
TokenExpiredInCall ==
    \E i \in GetIdx : /\ Is401(events[i].resp)
                      /\ i < Len(events)
                      /\ events[i + 1].e = "LOGIN_OK"

\* Sensors whose formula gives a number over every non-empty snapshot.
ComputedSensors == Sensors \ NamesOf(RawSensors)

\* C21: a refresh that ends over a cached non-empty snapshot, on a tick whose
\* GET was answered 401 and whose re-login succeeded, leaves the cache
\* non-empty (the previous snapshot or one received in this call) and no
\* computed sensor reads None afterwards.
C21_ExpiredTokenKeepsSnapshot ==
    [][(RefreshEnds /\ TokenExpiredInCall /\ data # PyNone /\ data.v # {}) =>
          /\ data' # PyNone
          /\ data'.v # {}
          /\ \/ data' = data
             \/ \E i \in GetIdx : /\ events[i].resp.kind = "dict"
                                  /\ events[i].resp.data = data'.v
          /\ \A name \in ComputedSensors : NativeValue(name, data') # PNone]_vars

\* ---------------------------------------------------------------------- C22
\* C22: a config entry exists only once authenticate() with the submitted
\* credentials has returned, its login POST having yielded a token, and the
\* entry holds those credentials; after a failed authenticate() there is no
\* entry.
C22_EntryOnlyAfterLogin ==
    /\ flow_entry # NoEntry =>
          /\ flow_step = "created"
          /\ HasToken(flow_login)
          /\ flow_token = flow_login.tok
          /\ flow_entry.data = flow_input
          /\ flow_entry.title = <<"Neovolt Battery", flow_input.username>>
    /\ flow_step = "created" => flow_entry # NoEntry
    /\ FlowLoginFailed => flow_entry = NoEntry /\ flow_step # "created"

\* C22 witness: the user submitted the shown form, the login returned token
\* t2 and the entry was created.
W_C22_EntryCreated ==
    /\ flow_step = "created"
    /\ flow_errors = ""
    /\ flow_login = LoginResp("none", 200, "dict", TRUE, "t2")
    /\ flow_entry = [title |-> <<"Neovolt Battery", "bob">>,
                     data |-> [username |-> "bob", password |-> "pw2",
                               scan_interval |-> 5]]
====
